---- MODULE Spec2Model ----
(***************************************************************************)
(* Model of the agent console of CrmCALLPRO (AgentView.tsx, mounted by     *)
(* App.tsx): the call-handling status machine of one agent, its elapsed    *)
(* counter (a 1 s setInterval owned by a useEffect) and the 10 s wrap-up   *)
(* setTimeout started by handleEndCall.                                    *)
(*                                                                         *)
(* Time is counted in whole seconds.  A timeout carries the number of      *)
(* seconds left before it is due; a due timeout runs before more time      *)
(* passes.  The state variables of AgentView describe the instance that is *)
(* mounted; after an unmount they hold the useState initial values, which  *)
(* is what the next mounted instance starts from.                          *)
(***************************************************************************)
EXTENDS Integers, Sequences, FiniteSets, TLC

\* ---------------------------------------------------------------- bounds
MaxContacts == 3      \* longest contact sequence of the agent's campaign
MaxInst == 2          \* number of AgentView instances mounted in one run
MaxTimer == 11        \* largest value the elapsed counter is followed to
MaxPages == 3         \* most pages of a script
MaxAnswerLen == 2     \* longest multi-choice answer list that is followed
MaxEvalLen == 2       \* longest answer list given to checkCondition alone
MaxCalls == 1         \* most planning callbacks invoked in one run
MaxUsers == 3         \* longest user list that is followed
MaxGen == 2           \* largest count given to handleGenerateUsers
MaxClock == 3         \* latest Date.now() reading, in milliseconds

\* ------------------------------------------------------ program constants
WrapUpDelay == 10     \* setTimeout(..., 10000) counted in 1000 ms ticks
FirstLoginId == 1001  \* let nextLoginId = 1001
MaxCount == 100       \* count > 100 is refused by handleMassGenerateClick

AgentCtiStatus == {"LOGGED_OUT", "WAITING", "IN_CALL", "WRAP_UP", "PAUSED"}

InitialStatus == "LOGGED_OUT"

ContactStatus == {"pending", "done"}

\* currentContact === null
NoContact == [id |-> 0, status |-> "none"]

VARIABLES
    campaigns,        \* App state `campaigns`, prop of AgentView
    agent,            \* prop `agent` (only campaignIds matters here)
    savedScripts,     \* App state `savedScripts`, prop of AgentView
    mounted,          \* App renders AgentView (currentUser is an agent)
    inst,             \* identity of the mounted AgentView instance
    ctiStatus,        \* useState<AgentCtiStatus>
    statusTimer,      \* useState(0)
    currentContact,   \* useState<Contact | null>
    intervals,        \* number of live setInterval handles
    timeouts,         \* pending setTimeout callbacks: [owner, rem]
    handled,          \* ids of the contacts handleNextCall has selected so far
    alertMsg,         \* what the last handler passed to alert(), "" if none
    lastOp,           \* the handler or callback that ran last
    prevStatus        \* ctiStatus before the last handler or callback

\* AgentPreview.tsx: one mounted script preview
VARIABLES
    script,           \* prop `script`
    formValues,       \* useState<Record<string, any>>({})
    currentPageId,    \* useState<string>(script.startPageId)
    checkedDom,       \* checked state the browser keeps for the rendered
                      \* (uncontrolled) checkboxes: <<block id, option>>
    emitted,          \* what the last handler passed to alert()
    lastEvent,        \* the handler that ran last, with its input
    everAnswered,     \* an answer was recorded in this run, in any preview
    thrown            \* the last handler's state update raised a TypeError

\* checkCondition applied on its own
VARIABLES
    evalCond,         \* argument `condition`
    evalValues,       \* argument `values`
    evalDone,         \* the call has returned
    evalResult        \* what it returned

svars == <<campaigns, agent, savedScripts, mounted, inst, ctiStatus, statusTimer,
           currentContact, intervals, timeouts, handled, alertMsg, lastOp,
           prevStatus>>

pvars == <<script, formValues, currentPageId, checkedDom, emitted, lastEvent,
           everAnswered, thrown>>

evars == <<evalCond, evalValues, evalDone, evalResult>>

\* PlanningManager with its PlanningEventModal
VARIABLES
    planningEvents,   \* prop `planningEvents`, the stored events
    selectedAgentId,  \* useState('all')
    modalState,       \* useState({ isOpen: false, event: null })
    formData,         \* the modal's useState<Partial<PlanningEvent>>
    planCalls,        \* calls made to onSavePlanningEvent and
                      \* onDeletePlanningEvent, in order
    planAlert,        \* what the last handler passed to alert(), "" if none
    planOp            \* the handler that ran last

plvars == <<planningEvents, selectedAgentId, modalState, formData, planCalls,
            planAlert, planOp>>

\* UserManager with its UserModal, over App's user list
VARIABLES
    users,            \* App state `users`
    isModalOpen,      \* useState(false)
    userForm,         \* the modal's formData, useState<User>(user)
    userError,        \* the modal's useState<string | null>(null)
    clock,            \* the last Date.now() reading
    userOp            \* the handler that ran last

uvars == <<users, isModalOpen, userForm, userError, clock, userOp>>

\* the components that are not on screen with the agent console
ovars == <<evars, plvars, uvars>>

vars == <<svars, pvars, ovars>>

\* ------------------------------------------------------------ input data
RECURSIVE SeqsUpTo(_, _)
SeqsUpTo(S, n) ==
    IF n = 0 THEN {<<>>}
    ELSE LET shorter == SeqsUpTo(S, n - 1)
         IN  shorter \cup {Append(s, x) : s \in {q \in shorter : Len(q) = n - 1}, x \in S}

\* contact sequences: contact i has id i
ContactSeqs ==
    {[i \in 1..Len(st) |-> [id |-> i, status |-> st[i]]] : st \in SeqsUpTo(ContactStatus, MaxContacts)}

\* the second campaign of the store: inactive, one pending contact
OtherCampaign ==
    [id |-> 2, isActive |-> FALSE, scriptId |-> 2,
     contacts |-> <<[id |-> 100, status |-> "pending"]>>]

CampaignStores ==
    {<<[id |-> 1, isActive |-> a, scriptId |-> 1, contacts |-> cs], OtherCampaign>> :
        a \in BOOLEAN, cs \in ContactSeqs}

Agents == {[campaignIds |-> ids] : ids \in {<<>>, <<1>>, <<2, 1>>}}

\* ------------------------------------------------------- pure functions
RECURSIVE FindFrom(_, _, _)
\* Array.prototype.find as an index: first i >= from with P[i], 0 if none
FindFrom(flags, from, n) ==
    IF from > n THEN 0
    ELSE IF flags[from] THEN from
    ELSE FindFrom(flags, from + 1, n)

\* mutant of agentCampaign: any membership of the agent will do
agentCampaignAnyMembership(cs, ag) ==
    FindFrom([i \in 1..Len(cs) |->
                 /\ \E j \in 1..Len(ag.campaignIds) : cs[i].id = ag.campaignIds[j]
                 /\ cs[i].isActive],
             1, Len(cs))

\* campaigns.find(c => c.id === agent.campaignIds[0] && c.isActive); 0 = undefined
agentCampaign(cs, ag) ==
    IF Len(ag.campaignIds) = 0 THEN 0
    ELSE FindFrom([i \in 1..Len(cs) |-> cs[i].id = ag.campaignIds[1] /\ cs[i].isActive],
                  1, Len(cs))

\* savedScripts.find(s => s.id === agentCampaign.scriptId), null when there
\* is no campaign; 0 = null or undefined
agentScript(cs, ag, store) ==
    LET c == agentCampaign(cs, ag)
    IN  IF c = 0 THEN 0
        ELSE FindFrom([i \in 1..Len(store) |-> store[i].id = cs[c].scriptId], 1, Len(store))

\* mutant of PreviewShown: the preview is kept from the call to the next
PreviewShownBetweenCalls(status, scriptIx, contact) ==
    status \in {"IN_CALL", "WRAP_UP", "WAITING"} /\ scriptIx # 0

\* mutant of PreviewShown: the contact alone decides
PreviewShownWithContact(status, scriptIx, contact) ==
    scriptIx # 0 /\ contact.id # 0

\* ctiStatus === 'IN_CALL' && agentScript && currentContact
PreviewShown(status, scriptIx, contact) ==
    status = "IN_CALL" /\ scriptIx # 0 /\ contact.id # 0

\* mutant of nextContact: the last pending contact instead of the first
nextContactLast(contacts) ==
    LET n == Len(contacts)
        r == FindFrom([i \in 1..n |-> contacts[n + 1 - i].status = "pending"], 1, n)
    IN  IF r = 0 THEN 0 ELSE n + 1 - r

\* mutant of nextContact: the first contact, whatever its status
nextContactAny(contacts) == IF Len(contacts) = 0 THEN 0 ELSE 1

\* agentCampaign.contacts.find(c => c.status === 'pending'); 0 = undefined
nextContact(contacts) ==
    FindFrom([i \in 1..Len(contacts) |-> contacts[i].status = "pending"], 1, Len(contacts))

\* mutant of EffectSetup: no early return for LOGGED_OUT
EffectSetupAlways(status, n) == n + 1

\* useEffect body for a status: LOGGED_OUT returns early with no interval,
\* any other status calls setInterval
EffectSetup(status, n) == IF status = "LOGGED_OUT" THEN n ELSE n + 1

\* mutant of EffectCleanup: the effect returns no cleanup
EffectCleanupNone(status, n) == n

\* the cleanup the effect returned for a status: clearInterval, when the
\* effect had created one
EffectCleanup(status, n) == IF status = "LOGGED_OUT" THEN n ELSE n - 1

\* useEffect(..., [ctiStatus]) after a render: re-run only when ctiStatus
\* changed, cleanup of the previous run first
StatusEffect(old, new, n) ==
    IF old = new THEN n ELSE EffectSetup(new, EffectCleanup(old, n))

\* mutant of Shown: the pause button is not gated on WAITING alone
ShownPauseInWrapUp(button, status) ==
    CASE button = "login"    -> status = "LOGGED_OUT"
      [] button = "nextCall" -> status = "WAITING"
      [] button = "pause"    -> status \in {"WAITING", "WRAP_UP"}
      [] button = "resume"   -> status = "PAUSED"
      [] button = "endCall"  -> status = "IN_CALL"
      [] OTHER               -> FALSE

\* the footer buttons, each rendered for one status only
Shown(button, status) ==
    CASE button = "login"    -> status = "LOGGED_OUT"
      [] button = "nextCall" -> status = "WAITING"
      [] button = "pause"    -> status = "WAITING"
      [] button = "resume"   -> status = "PAUSED"
      [] button = "endCall"  -> status = "IN_CALL"
      [] OTHER               -> FALSE

\* mutant of LogoutShown: the logout button gated like the footer buttons
LogoutShownGated(status) == status # "WRAP_UP"

\* the "Deconnexion" button of the header is rendered for every status
LogoutShown(status) == status \in AgentCtiStatus

\* setStatusTimer(prev => prev + 1)
IntervalCallback(prev) == prev + 1

\* mutant of ScheduleWrapUp: handleEndCall without its setTimeout
ScheduleNothing(ts, owner) == ts

\* mutant of ScheduleWrapUp: the delay is one second too long
ScheduleWrapUpLate(ts, owner) == ts \cup {[owner |-> owner, rem |-> WrapUpDelay + 1]}

\* the timeouts handleEndCall leaves pending
ScheduleWrapUp(ts, owner) == ts \cup {[owner |-> owner, rem |-> WrapUpDelay]}

\* what unmounting AgentView does to the pending timeouts: nothing
\* (the handle returned by setTimeout is not kept, no clearTimeout)
UnmountTimeouts(ts, owner) == ts

AdvanceTimeouts(ts) == {[t EXCEPT !.rem = @ - 1] : t \in ts}

NoneDue(ts) == \A t \in ts : t.rem > 0

\* ------------------------------------------------ JavaScript values
\* the values the preview handles, tagged by their JavaScript type
Undef == [kind |-> "undefined", s |-> "", l |-> <<>>]

Null == [kind |-> "null", s |-> "", l |-> <<>>]

Str(x) == [kind |-> "string", s |-> x, l |-> <<>>]

Arr(q) == [kind |-> "array", s |-> "", l |-> q]

\* !v for the values above (an array is truthy, even empty)
Falsy(v) ==
    \/ v.kind \in {"undefined", "null"}
    \/ v.kind = "string" /\ v.s = ""

\* a === b: same type and same value; an array equals only itself, and
\* the arrays of formValues are never the value of a condition
StrictEq(a, b) ==
    /\ a.kind = b.kind
    /\ a.kind # "array"
    /\ a.s = b.s

\* q.includes(v) for an array of strings
Includes(q, v) == v.kind = "string" /\ \E i \in 1..Len(q) : q[i] = v.s

\* values[name]: undefined when the key is absent
Lookup(values, name) == IF name \in DOMAIN values THEN values[name] ELSE Undef

\* {}
EmptyValues == [k \in {} |-> Undef]

\* { ...prev, [name]: value }
Assign(prev, name, value) ==
    [k \in (DOMAIN prev) \cup {name} |-> IF k = name THEN value ELSE prev[k]]

\* ----------------------------------------------------- AgentPreview
\* displayCondition: null
NoCondition == [kind |-> "null", blockName |-> Null, value |-> Undef]

\* displayCondition: { blockName, value }
Condition(blockName, value) == [kind |-> "object", blockName |-> blockName, value |-> value]

\* mutant of checkCondition: without the Array.isArray branch
checkConditionNoArray(condition, values) ==
    IF condition.kind = "null" \/ Falsy(condition.blockName) THEN TRUE
    ELSE StrictEq(Lookup(values, condition.blockName.s), condition.value)

checkCondition(condition, values) ==
    IF condition.kind = "null" \/ Falsy(condition.blockName) THEN TRUE
    ELSE LET targetValue == Lookup(values, condition.blockName.s)
         IN  IF targetValue.kind = "array"
             THEN Includes(targetValue.l, condition.value)
             ELSE StrictEq(targetValue, condition.value)

\* mutant of handleValueChange: the updater drops ...prev
handleValueChangeAlone(prev, name, value) == Assign(EmptyValues, name, value)

\* handleValueChange(name, value): the updater of setFormValues
handleValueChange(prev, name, value) == Assign(prev, name, value)

\* existing.filter(item => item !== option)
RECURSIVE Without(_, _)
Without(q, option) ==
    IF q = <<>> THEN <<>>
    ELSE IF Head(q) = option THEN Without(Tail(q), option)
    ELSE <<Head(q)>> \o Without(Tail(q), option)

\* const existing = prev[name] || []: the stored value when it is truthy
\* (an array, or the string a single-valued block of the same name stored)
Existing(prev, name) ==
    IF Falsy(Lookup(prev, name)) THEN Arr(<<>>) ELSE Lookup(prev, name)

\* the characters of the strings the blocks store: the spread of a string
\* iterates over its characters (the options are one character long)
Chars(str) ==
    CASE str = "yes" -> <<"y", "e", "s">>
      [] str = "no" -> <<"n", "o">>
      [] OTHER -> <<str>>

\* [...existing]
Spread(v) == IF v.kind = "array" THEN v.l ELSE Chars(v.s)

\* existing.filter(...) raises a TypeError when existing is a string:
\* the unchecked branch of handleCheckboxChange
handleCheckboxChangeThrows(prev, name, checked) ==
    ~checked /\ Existing(prev, name).kind # "array"

\* mutant of handleCheckboxChange: unchecking the last option deletes the
\* key
handleCheckboxChangeDropsEmpty(prev, name, option, checked) ==
    IF checked
    THEN Assign(prev, name, Arr(Spread(Existing(prev, name)) \o <<option>>))
    ELSE IF Existing(prev, name).kind = "array"
         THEN IF Without(Existing(prev, name).l, option) = <<>>
              THEN [k \in (DOMAIN prev) \ {name} |-> prev[k]]
              ELSE Assign(prev, name, Arr(Without(Existing(prev, name).l, option)))
         ELSE prev

\* handleCheckboxChange(name, option, checked): the updater of
\* setFormValues; where it throws no new state is produced
handleCheckboxChange(prev, name, option, checked) ==
    IF checked
    THEN Assign(prev, name, Arr(Spread(Existing(prev, name)) \o <<option>>))
    ELSE IF Existing(prev, name).kind = "array"
         THEN Assign(prev, name, Arr(Without(Existing(prev, name).l, option)))
         ELSE prev

\* script.pages.findIndex(p => p.id === id): -1 when there is none
findIndex(pages, id) ==
    FindFrom([i \in 1..Len(pages) |-> pages[i].id = id], 1, Len(pages)) - 1

\* pages[j], j counted from 0
At(pages, j) == pages[j + 1]

\* mutant of handleButtonClick: next and previous wrap around
handleButtonClickWrap(action, sc, pageId) ==
    CASE action.type = "navigate" ->
            IF ~Falsy(action.pageId) THEN action.pageId.s ELSE pageId
      [] action.type = "next" ->
            LET currentIndex == findIndex(sc.pages, pageId)
            IN  At(sc.pages, (currentIndex + 1) % Len(sc.pages)).id
      [] action.type = "previous" ->
            LET currentIndex == findIndex(sc.pages, pageId)
            IN  At(sc.pages, (currentIndex - 1) % Len(sc.pages)).id
      [] OTHER -> pageId

\* mutant of handleButtonClick: navigate only to a page of the script
handleButtonClickGuarded(action, sc, pageId) ==
    CASE action.type = "navigate" ->
            IF ~Falsy(action.pageId) /\ findIndex(sc.pages, action.pageId.s) >= 0
            THEN action.pageId.s ELSE pageId
      [] action.type = "next" ->
            LET currentIndex == findIndex(sc.pages, pageId)
            IN  IF currentIndex < Len(sc.pages) - 1
                THEN At(sc.pages, currentIndex + 1).id ELSE pageId
      [] action.type = "previous" ->
            LET currentIndex == findIndex(sc.pages, pageId)
            IN  IF currentIndex > 0
                THEN At(sc.pages, currentIndex - 1).id ELSE pageId
      [] OTHER -> pageId

\* mutant of handleButtonClick: next and previous do nothing when the
\* current page is not found
handleButtonClickLost(action, sc, pageId) ==
    CASE action.type = "navigate" ->
            IF ~Falsy(action.pageId) THEN action.pageId.s ELSE pageId
      [] action.type = "next" ->
            LET currentIndex == findIndex(sc.pages, pageId)
            IN  IF currentIndex >= 0 /\ currentIndex < Len(sc.pages) - 1
                THEN At(sc.pages, currentIndex + 1).id ELSE pageId
      [] action.type = "previous" ->
            LET currentIndex == findIndex(sc.pages, pageId)
            IN  IF currentIndex > 0
                THEN At(sc.pages, currentIndex - 1).id ELSE pageId
      [] OTHER -> pageId

\* mutant of handleButtonClick: the default arm falls into 'next'
handleButtonClickDefaultNext(action, sc, pageId) ==
    CASE action.type = "navigate" ->
            IF ~Falsy(action.pageId) THEN action.pageId.s ELSE pageId
      [] action.type = "previous" ->
            LET currentIndex == findIndex(sc.pages, pageId)
            IN  IF currentIndex > 0
                THEN At(sc.pages, currentIndex - 1).id ELSE pageId
      [] action.type = "save" -> pageId
      [] OTHER ->
            LET currentIndex == findIndex(sc.pages, pageId)
            IN  IF currentIndex < Len(sc.pages) - 1
                THEN At(sc.pages, currentIndex + 1).id ELSE pageId

\* handleButtonClick(action): the page id it leaves in currentPageId
handleButtonClick(action, sc, pageId) ==
    CASE action.type = "navigate" ->
            IF ~Falsy(action.pageId) THEN action.pageId.s ELSE pageId
      [] action.type = "next" ->
            LET currentIndex == findIndex(sc.pages, pageId)
            IN  IF currentIndex < Len(sc.pages) - 1
                THEN At(sc.pages, currentIndex + 1).id ELSE pageId
      [] action.type = "previous" ->
            LET currentIndex == findIndex(sc.pages, pageId)
            IN  IF currentIndex > 0
                THEN At(sc.pages, currentIndex - 1).id ELSE pageId
      [] OTHER -> pageId

\* JSON.stringify(values, null, 2), as the mapping that can be read back
\* from the text: a key whose value is undefined is left out
JSONStringify(values) ==
    [k \in {x \in DOMAIN values : values[x].kind # "undefined"} |-> values[k]]

\* handleButtonClick(action): what it passes to alert(), for 'save' the
\* form values
NoOutput == [shown |-> FALSE, values |-> EmptyValues]

\* mutant of ButtonOutput: 'save' shows an empty mapping
ButtonOutputEmpty(action, values) ==
    IF action.type = "save" THEN [shown |-> TRUE, values |-> EmptyValues] ELSE NoOutput

\* mutant of ButtonOutput: every action but 'previous' shows the mapping
ButtonOutputOnLeave(action, values) ==
    IF action.type # "previous"
    THEN [shown |-> TRUE, values |-> JSONStringify(values)] ELSE NoOutput

ButtonOutput(action, values) ==
    IF action.type = "save"
    THEN [shown |-> TRUE, values |-> JSONStringify(values)] ELSE NoOutput

\* const currentPage = script.pages.find(p => p.id === currentPageId),
\* as the set of its blocks (none when there is no such page)
CurrentBlocks(sc, pageId) ==
    LET j == findIndex(sc.pages, pageId)
    IN  IF j < 0 THEN {} ELSE {At(sc.pages, j).blocks[i] : i \in 1..Len(At(sc.pages, j).blocks)}

\* currentPage?.blocks.filter(...): the blocks that are rendered
Rendered(sc, pageId, values) ==
    {b \in CurrentBlocks(sc, pageId) :
        b.type # "group" /\ checkCondition(b.displayCondition, values)}

\* the case labels of the switch of renderBlock
BlockTypes ==
    {"label", "text", "input", "radio", "checkbox", "dropdown", "date", "phone",
     "web-view", "email", "time", "button"}

\* what the default arm of renderBlock returns
Unsupported == "Type de bloc non supporte"

\* mutant of renderBlock: the default arm returns nothing
renderBlockNoDefault(block) == IF block.type \in BlockTypes THEN block.type ELSE "null"

\* renderBlock(block): the kind of element it returns
renderBlock(block) == IF block.type \in BlockTypes THEN block.type ELSE Unsupported

\* const currentPage = script.pages.find(p => p.id === currentPageId),
\* as the sequence currentPage?.blocks (empty when there is no such page)
PageBlocks(sc, pageId) ==
    LET j == findIndex(sc.pages, pageId)
    IN  IF j < 0 THEN <<>> ELSE At(sc.pages, j).blocks

\* mutant of Elements: the filter does not test the type
ElementsWithGroups(sc, pageId, values) ==
    LET shown == SelectSeq(PageBlocks(sc, pageId),
                     LAMBDA b : checkCondition(b.displayCondition, values))
    IN  [i \in 1..Len(shown) |-> [key |-> shown[i].id, element |-> renderBlock(shown[i])]]

\* currentPage?.blocks.filter(...).map(...): the elements of the page, in
\* order, each with its React key
Elements(sc, pageId, values) ==
    LET shown == SelectSeq(PageBlocks(sc, pageId),
                     LAMBDA b : b.type # "group" /\ checkCondition(b.displayCondition, values))
    IN  [i \in 1..Len(shown) |-> [key |-> shown[i].id, element |-> renderBlock(shown[i])]]

\* the checkbox state the browser still holds after a render: that of the
\* blocks that stay mounted (React keys them by block.id)
KeepDom(dom, sc, pageId, values) ==
    {x \in dom : \E b \in Rendered(sc, pageId, values) : b.id = x[1]}

\* ------------------------------------------------- scripts (inputs)
PageNames == <<"p1", "p2", "p3", "p4", "p5">>

NoAction == [type |-> "none", pageId |-> Undef]

Block(id, type, name, options, cond, action) ==
    [id |-> id, type |-> type, name |-> name, options |-> options,
     displayCondition |-> cond, action |-> action]

Button(i, name, action) == Block(<<i, name>>, "button", name, {}, NoCondition, action)

\* the buttons every page carries: one per action type, the navigate
\* button with the target of the script
PageButtons(i, target) ==
    << Button(i, "bSave", [type |-> "save", pageId |-> Undef]),
       Button(i, "bNext", [type |-> "next", pageId |-> Undef]),
       Button(i, "bPrev", [type |-> "previous", pageId |-> Undef]),
       Button(i, "bNav", [type |-> "navigate", pageId |-> target]) >>

\* the first page also asks a single-choice question q1, a multi-choice
\* question opts shown under condA, and shows a label when opts holds "B";
\* it has a group marker, a block of a type renderBlock has no case for
\* and a button whose action type handleButtonClick has no case for
FirstPageInputs(condA) ==
    << Block(<<1, "q1">>, "radio", "q1", {"yes", "no"}, NoCondition, NoAction),
       Block(<<1, "opts">>, "checkbox", "opts", {"A", "B"}, condA, NoAction),
       Block(<<1, "lbl">>, "label", "lbl", {}, Condition(Str("opts"), Str("B")), NoAction),
       Block(<<1, "grp">>, "group", "grp", {}, NoCondition, NoAction),
       Block(<<1, "sig">>, "signature", "sig", {}, condA, NoAction),
       Button(1, "bOther", [type |-> "print", pageId |-> Undef]) >>

MkPage(i, target, condA) ==
    [id |-> PageNames[i],
     blocks |-> (IF i = 1 THEN FirstPageInputs(condA) ELSE <<>>) \o PageButtons(i, target)]

MkScript(n, start, target, condA) ==
    [startPageId |-> PageNames[start],
     pages |-> [i \in 1..n |-> MkPage(i, target, condA)]]

\* where a navigate button may point: the first page, page n (absent from
\* a shorter script), a page of no script, an empty id, no id
NavTargets(n) == {Str(PageNames[1]), Str(PageNames[n]), Str("gone"), Str(""), Undef}

Scripts ==
    {MkScript(n, start, target, condA) :
        n \in 1..MaxPages, start \in 1..MaxPages, target \in NavTargets(MaxPages),
        condA \in {NoCondition, Condition(Str("q1"), Str("yes"))}}

\* the types whose input calls handleValueChange
ValueTypes == {"input", "radio", "dropdown", "date", "phone", "email", "time"}

\* ------------------------------------------ checkCondition (inputs)
EvalConditions ==
    {NoCondition} \cup
    {Condition(b, v) : b \in {Null, Str(""), Str("q1"), Str("opts")},
                       v \in {Undef, Str("yes"), Str("no"), Str("A"), Str("B")}}

EvalAnswers ==
    {Str("yes"), Str("no"), Str("")} \cup {Arr(q) : q \in SeqsUpTo({"A", "B"}, MaxEvalLen)}

EvalValueMaps ==
    UNION {[K -> EvalAnswers] : K \in SUBSET {"q1", "opts"}}

\* ------------------------------------------------- idle components
NoScript == [startPageId |-> "", pages |-> <<>>]

NoEvent == [op |-> "none", block |-> <<0, "">>, arg |-> "", checked |-> FALSE]

\* no AgentView is mounted
SessionIdle ==
    /\ campaigns = <<>>
    /\ agent = [campaignIds |-> <<>>]
    /\ savedScripts = <<>>
    /\ mounted = FALSE
    /\ inst = 1
    /\ ctiStatus = InitialStatus
    /\ statusTimer = 0
    /\ currentContact = NoContact
    /\ intervals = 0
    /\ timeouts = {}
    /\ handled = {}
    /\ alertMsg = ""
    /\ lastOp = "none"
    /\ prevStatus = InitialStatus

\* no AgentPreview is mounted
PreviewIdle ==
    /\ script = NoScript
    /\ formValues = EmptyValues
    /\ currentPageId = ""
    /\ checkedDom = {}
    /\ emitted = NoOutput
    /\ lastEvent = NoEvent
    /\ everAnswered = FALSE
    /\ thrown = FALSE

\* checkCondition is not being called on its own
EvalIdle ==
    /\ evalCond = NoCondition
    /\ evalValues = EmptyValues
    /\ evalDone = FALSE
    /\ evalResult = FALSE

\* event: null, and every field an event may lack, reads as undefined
NoPlanEvent == [id |-> Undef, agentId |-> Undef, activityId |-> Undef]

\* useState({ isOpen: false, event: null })
NoModal == [isOpen |-> FALSE, event |-> NoPlanEvent]

\* no PlanningEventModal is mounted
NoEventForm == NoPlanEvent

\* no UserModal is mounted
NoUser == [id |-> "", loginId |-> ""]

\* the planning calendar is not on screen
PlanningIdle ==
    /\ planningEvents = {}
    /\ selectedAgentId = "all"
    /\ modalState = NoModal
    /\ formData = NoEventForm
    /\ planCalls = <<>>
    /\ planAlert = ""
    /\ planOp = "none"

\* the user list is not on screen
UsersIdle ==
    /\ users = <<>>
    /\ isModalOpen = FALSE
    /\ userForm = NoUser
    /\ userError = ""
    /\ clock = 0
    /\ userOp = "none"

OthersIdle == EvalIdle /\ PlanningIdle /\ UsersIdle

\* -------------------------------------------------------------- Init
Init ==
    /\ campaigns \in CampaignStores
    /\ agent \in Agents
    /\ savedScripts = <<>>
    /\ mounted = TRUE
    /\ inst = 1
    /\ ctiStatus = InitialStatus
    /\ statusTimer = 0
    /\ currentContact = NoContact
    /\ intervals = EffectSetup(InitialStatus, 0)
    /\ timeouts = {}
    /\ handled = {}
    /\ alertMsg = ""
    /\ lastOp = "mount"
    /\ prevStatus = InitialStatus
    /\ PreviewIdle
    /\ OthersIdle

\* a new AgentPreview: the useState initial values
MountPreview(sc) ==
    /\ script' = sc
    /\ formValues' = EmptyValues
    /\ currentPageId' = sc.startPageId
    /\ checkedDom' = {}
    /\ emitted' = NoOutput
    /\ lastEvent' = NoEvent
    /\ thrown' = FALSE

\* the AgentPreview is removed: its state and its DOM are dropped
UnmountPreview ==
    /\ script' = NoScript
    /\ formValues' = EmptyValues
    /\ currentPageId' = ""
    /\ checkedDom' = {}
    /\ emitted' = NoOutput
    /\ lastEvent' = NoEvent
    /\ thrown' = FALSE

\* the render of AgentView after a handler or callback: AgentPreview is
\* kept while the condition of its branch stays true, mounted when it
\* becomes true, removed when it becomes false
PreviewRender ==
    LET ix == agentScript(campaigns, agent, savedScripts)
        was == mounted /\ PreviewShown(ctiStatus, ix, currentContact)
        is == mounted' /\ PreviewShown(ctiStatus', ix, currentContact')
    IN  /\ IF is
           THEN IF was
                THEN UNCHANGED <<script, formValues, currentPageId, checkedDom,
                                 emitted, lastEvent, thrown>>
                ELSE MountPreview(savedScripts[ix].body)
           ELSE UnmountPreview
        /\ UNCHANGED everAnswered

\* the props of AgentView: no handler or callback writes them; the
\* handler or callback ends with a render
Frame ==
    /\ UNCHANGED <<campaigns, agent, savedScripts, ovars>>
    /\ PreviewRender

\* ------------------------------------------------------------ actions
\* footer button shown when ctiStatus === 'LOGGED_OUT'
handleLoginClick ==
    /\ mounted
    /\ Shown("login", ctiStatus)
    /\ ctiStatus' = "WAITING"
    /\ statusTimer' = 0
    /\ intervals' = StatusEffect(ctiStatus, "WAITING", intervals)
    /\ alertMsg' = ""
    /\ lastOp' = "login"
    /\ prevStatus' = ctiStatus
    /\ UNCHANGED <<mounted, inst, currentContact, timeouts, handled>>
    /\ Frame

\* mutant of handleNextCall: the empty-queue branch sets IN_CALL
handleNextCallEmptyInCall ==
    /\ mounted
    /\ Shown("nextCall", ctiStatus)
    /\ LET c == agentCampaign(campaigns, agent)
       IN  IF c = 0
           THEN /\ UNCHANGED <<ctiStatus, statusTimer, currentContact, intervals, handled>>
                /\ alertMsg' = ""
           ELSE LET k == nextContact(campaigns[c].contacts)
                IN  IF k # 0
                    THEN /\ currentContact' = campaigns[c].contacts[k]
                         /\ ctiStatus' = "IN_CALL"
                         /\ statusTimer' = 0
                         /\ intervals' = StatusEffect(ctiStatus, "IN_CALL", intervals)
                         /\ handled' = handled \cup {campaigns[c].contacts[k].id}
                         /\ alertMsg' = ""
                    ELSE /\ alertMsg' = "Plus de contacts"
                         /\ ctiStatus' = "IN_CALL"
                         /\ intervals' = StatusEffect(ctiStatus, "IN_CALL", intervals)
                         /\ UNCHANGED <<statusTimer, currentContact, handled>>
    /\ lastOp' = "nextCall"
    /\ prevStatus' = ctiStatus
    /\ UNCHANGED <<mounted, inst, timeouts>>
    /\ Frame

\* mutant of handleNextCall: the selected contact is taken out of the
\* campaign
handleNextCallPops ==
    /\ mounted
    /\ Shown("nextCall", ctiStatus)
    /\ LET c == agentCampaign(campaigns, agent)
       IN  IF c = 0
           THEN /\ UNCHANGED <<ctiStatus, statusTimer, currentContact, intervals, handled,
                               campaigns>>
                /\ alertMsg' = ""
           ELSE LET k == nextContact(campaigns[c].contacts)
                IN  IF k # 0
                    THEN /\ currentContact' = campaigns[c].contacts[k]
                         /\ ctiStatus' = "IN_CALL"
                         /\ statusTimer' = 0
                         /\ intervals' = StatusEffect(ctiStatus, "IN_CALL", intervals)
                         /\ handled' = handled \cup {campaigns[c].contacts[k].id}
                         /\ alertMsg' = ""
                         /\ campaigns' = [campaigns EXCEPT ![c].contacts =
                                SubSeq(@, 1, k - 1) \o SubSeq(@, k + 1, Len(@))]
                    ELSE /\ alertMsg' = "Plus de contacts"
                         /\ ctiStatus' = "WAITING"
                         /\ intervals' = StatusEffect(ctiStatus, "WAITING", intervals)
                         /\ UNCHANGED <<statusTimer, currentContact, handled, campaigns>>
    /\ lastOp' = "nextCall"
    /\ prevStatus' = ctiStatus
    /\ UNCHANGED <<mounted, inst, timeouts>>
    /\ UNCHANGED <<agent, savedScripts, ovars>>
    /\ PreviewRender

\* "Appel Suivant", shown when ctiStatus === 'WAITING'
handleNextCall ==
    /\ mounted
    /\ Shown("nextCall", ctiStatus)
    /\ LET c == agentCampaign(campaigns, agent)
       IN  IF c = 0
           THEN \* if (!agentCampaign) return;
                /\ UNCHANGED <<ctiStatus, statusTimer, currentContact, intervals, handled>>
                /\ alertMsg' = ""
           ELSE LET k == nextContact(campaigns[c].contacts)
                IN  IF k # 0
                    THEN /\ currentContact' = campaigns[c].contacts[k]
                         /\ ctiStatus' = "IN_CALL"
                         /\ statusTimer' = 0
                         /\ intervals' = StatusEffect(ctiStatus, "IN_CALL", intervals)
                         /\ handled' = handled \cup {campaigns[c].contacts[k].id}
                         /\ alertMsg' = ""
                    ELSE /\ alertMsg' = "Plus de contacts"
                         /\ ctiStatus' = "WAITING"
                         /\ intervals' = StatusEffect(ctiStatus, "WAITING", intervals)
                         /\ UNCHANGED <<statusTimer, currentContact, handled>>
    /\ lastOp' = "nextCall"
    /\ prevStatus' = ctiStatus
    /\ UNCHANGED <<mounted, inst, timeouts>>
    /\ Frame

\* mutant of handleEndCall: the contact is cleared at once
handleEndCallClearsContact ==
    /\ mounted
    /\ Shown("endCall", ctiStatus)
    /\ ctiStatus' = "WRAP_UP"
    /\ statusTimer' = 0
    /\ currentContact' = NoContact
    /\ timeouts' = ScheduleWrapUp(timeouts, inst)
    /\ intervals' = StatusEffect(ctiStatus, "WRAP_UP", intervals)
    /\ alertMsg' = ""
    /\ lastOp' = "endCall"
    /\ prevStatus' = ctiStatus
    /\ UNCHANGED <<mounted, inst, handled>>
    /\ Frame

\* "Raccrocher", shown when ctiStatus === 'IN_CALL'
handleEndCall ==
    /\ mounted
    /\ Shown("endCall", ctiStatus)
    /\ ctiStatus' = "WRAP_UP"
    /\ statusTimer' = 0
    /\ timeouts' = ScheduleWrapUp(timeouts, inst)
    /\ intervals' = StatusEffect(ctiStatus, "WRAP_UP", intervals)
    /\ alertMsg' = ""
    /\ lastOp' = "endCall"
    /\ prevStatus' = ctiStatus
    /\ UNCHANGED <<mounted, inst, currentContact, handled>>
    /\ Frame

\* "Pause", shown when ctiStatus === 'WAITING'
handlePause ==
    /\ mounted
    /\ Shown("pause", ctiStatus)
    /\ ctiStatus' = "PAUSED"
    /\ statusTimer' = 0
    /\ intervals' = StatusEffect(ctiStatus, "PAUSED", intervals)
    /\ alertMsg' = ""
    /\ lastOp' = "pause"
    /\ prevStatus' = ctiStatus
    /\ UNCHANGED <<mounted, inst, currentContact, timeouts, handled>>
    /\ Frame

\* mutant of handleResume: without setStatusTimer(0)
handleResumeKeepsTimer ==
    /\ mounted
    /\ Shown("resume", ctiStatus)
    /\ ctiStatus' = "WAITING"
    /\ intervals' = StatusEffect(ctiStatus, "WAITING", intervals)
    /\ alertMsg' = ""
    /\ lastOp' = "resume"
    /\ prevStatus' = ctiStatus
    /\ UNCHANGED <<mounted, inst, statusTimer, currentContact, timeouts, handled>>
    /\ Frame

\* "Reprendre", shown when ctiStatus === 'PAUSED'
handleResume ==
    /\ mounted
    /\ Shown("resume", ctiStatus)
    /\ ctiStatus' = "WAITING"
    /\ statusTimer' = 0
    /\ intervals' = StatusEffect(ctiStatus, "WAITING", intervals)
    /\ alertMsg' = ""
    /\ lastOp' = "resume"
    /\ prevStatus' = ctiStatus
    /\ UNCHANGED <<mounted, inst, currentContact, timeouts, handled>>
    /\ Frame

\* mutant of WrapUpTimeout: the callback acts on whichever instance is
\* mounted
WrapUpTimeoutShared(t) ==
    /\ t \in timeouts
    /\ t.rem = 0
    /\ timeouts' = timeouts \ {t}
    /\ prevStatus' = ctiStatus
    /\ alertMsg' = ""
    /\ IF mounted
       THEN /\ ctiStatus' = "WAITING"
            /\ currentContact' = NoContact
            /\ statusTimer' = 0
            /\ intervals' = StatusEffect(ctiStatus, "WAITING", intervals)
            /\ lastOp' = IF t.owner = inst THEN "wrapUpTimeout" ELSE "staleTimeout"
       ELSE /\ UNCHANGED <<ctiStatus, currentContact, statusTimer, intervals>>
            /\ lastOp' = "staleTimeout"
    /\ UNCHANGED <<mounted, inst, handled>>
    /\ Frame

\* the callback handleEndCall passed to setTimeout, run when it is due.
\* Its setters belong to the instance that scheduled it: on an unmounted
\* instance React drops the updates.
WrapUpTimeout(t) ==
    /\ t \in timeouts
    /\ t.rem = 0
    /\ timeouts' = timeouts \ {t}
    /\ prevStatus' = ctiStatus
    /\ alertMsg' = ""
    /\ IF mounted /\ t.owner = inst
       THEN /\ ctiStatus' = "WAITING"
            /\ currentContact' = NoContact
            /\ statusTimer' = 0
            /\ intervals' = StatusEffect(ctiStatus, "WAITING", intervals)
            /\ lastOp' = "wrapUpTimeout"
       ELSE /\ UNCHANGED <<ctiStatus, currentContact, statusTimer, intervals>>
            /\ lastOp' = "staleTimeout"
    /\ UNCHANGED <<mounted, inst, handled>>
    /\ Frame

\* one second passes while the interval of the mounted instance is live
Tick ==
    /\ mounted
    /\ intervals > 0
    /\ statusTimer < MaxTimer
    /\ NoneDue(timeouts)
    /\ statusTimer' = IntervalCallback(statusTimer)
    /\ timeouts' = AdvanceTimeouts(timeouts)
    /\ alertMsg' = ""
    /\ lastOp' = "tick"
    /\ prevStatus' = ctiStatus
    /\ UNCHANGED <<mounted, inst, ctiStatus, currentContact, intervals, handled>>
    /\ Frame

\* one second passes while no interval is live
TimePasses ==
    /\ intervals = 0
    /\ timeouts # {}
    /\ NoneDue(timeouts)
    /\ timeouts' = AdvanceTimeouts(timeouts)
    /\ alertMsg' = ""
    /\ lastOp' = "timePasses"
    /\ prevStatus' = ctiStatus
    /\ UNCHANGED <<mounted, inst, ctiStatus, statusTimer, currentContact, intervals,
                   handled>>
    /\ Frame

\* "Deconnexion": onLogout = setCurrentUser(null), App stops rendering
\* AgentView; the effect cleanup clears the interval, the state is dropped
Logout ==
    /\ mounted
    /\ LogoutShown(ctiStatus)
    /\ mounted' = FALSE
    /\ intervals' = EffectCleanup(ctiStatus, intervals)
    /\ timeouts' = UnmountTimeouts(timeouts, inst)
    /\ ctiStatus' = InitialStatus
    /\ statusTimer' = 0
    /\ currentContact' = NoContact
    /\ alertMsg' = ""
    /\ lastOp' = "logout"
    /\ prevStatus' = ctiStatus
    /\ UNCHANGED <<inst, handled>>
    /\ Frame

\* LoginScreen.onLoginSuccess: App renders a new AgentView; its first
\* effect run sees LOGGED_OUT and calls setStatusTimer(0)
Mount ==
    /\ ~mounted
    /\ inst < MaxInst
    /\ mounted' = TRUE
    /\ inst' = inst + 1
    /\ ctiStatus' = InitialStatus
    /\ statusTimer' = 0
    /\ currentContact' = NoContact
    /\ alertMsg' = ""
    /\ lastOp' = "mount"
    /\ prevStatus' = ctiStatus
    /\ intervals' = EffectSetup(InitialStatus, intervals)
    /\ UNCHANGED <<timeouts, handled>>
    /\ Frame

Next ==
    \/ handleLoginClick
    \/ handleNextCall
    \/ handleEndCall
    \/ handlePause
    \/ handleResume
    \/ \E t \in timeouts : WrapUpTimeout(t)
    \/ Tick
    \/ TimePasses
    \/ Logout
    \/ Mount

Spec == Init /\ [][Next]_vars

\* the timers are scheduled by the browser: a due callback runs, time passes
FairSpec ==
    /\ Spec
    /\ WF_vars(Tick)
    /\ WF_vars(TimePasses)
    /\ WF_vars(\E t \in timeouts : WrapUpTimeout(t))

TypeOK ==
    /\ mounted \in BOOLEAN
    /\ inst \in 1..MaxInst
    /\ statusTimer \in 0..MaxTimer
    /\ intervals \in 0..1
    /\ \A t \in timeouts : t.owner \in 1..MaxInst /\ t.rem \in 0..WrapUpDelay

\* ------------------------------------------------------ AgentPreview
\* AgentPreview mounted with a script
InitPreview ==
    /\ SessionIdle
    /\ OthersIdle
    /\ script \in {sc \in Scripts : findIndex(sc.pages, sc.startPageId) >= 0}
    /\ formValues = EmptyValues
    /\ currentPageId = script.startPageId
    /\ checkedDom = {}
    /\ emitted = NoOutput
    /\ lastEvent = NoEvent
    /\ everAnswered = FALSE
    /\ thrown = FALSE

\* mutant of ValueChange: recording the answer also moves to the next page
ValueChangeAdvances(b, v) ==
    /\ b.type \in ValueTypes
    /\ b \in Rendered(script, currentPageId, formValues)
    /\ v \in b.options
    /\ formValues' = handleValueChange(formValues, b.name, Str(v))
    /\ currentPageId' = handleButtonClick([type |-> "next", pageId |-> Undef], script,
                                          currentPageId)
    /\ checkedDom' = KeepDom(checkedDom, script, currentPageId', formValues')
    /\ emitted' = NoOutput
    /\ lastEvent' = [op |-> "value", block |-> b.id, arg |-> v, checked |-> FALSE]
    /\ everAnswered' = TRUE
    /\ UNCHANGED <<script, thrown>>
    /\ UNCHANGED <<svars, ovars>>

\* onChange of a rendered input, radio, dropdown, ...
ValueChange(b, v) ==
    /\ b.type \in ValueTypes
    /\ b \in Rendered(script, currentPageId, formValues)
    /\ v \in b.options
    /\ formValues' = handleValueChange(formValues, b.name, Str(v))
    /\ checkedDom' = KeepDom(checkedDom, script, currentPageId, formValues')
    /\ emitted' = NoOutput
    /\ lastEvent' = [op |-> "value", block |-> b.id, arg |-> v, checked |-> FALSE]
    /\ everAnswered' = TRUE
    /\ UNCHANGED <<script, currentPageId, thrown>>
    /\ UNCHANGED <<svars, ovars>>

\* onChange of a rendered checkbox: e.target.checked is the new state of
\* the box the browser has toggled.  When the updater throws, the error
\* leaves the render and React removes the tree: nothing of the preview
\* stays displayed.
CheckboxChange(b, opt) ==
    /\ b.type = "checkbox"
    /\ b \in Rendered(script, currentPageId, formValues)
    /\ opt \in b.options
    /\ LET checked == <<b.id, opt>> \notin checkedDom
           dom == IF checked THEN checkedDom \cup {<<b.id, opt>>}
                  ELSE checkedDom \ {<<b.id, opt>>}
       IN  /\ (checked /\ Existing(formValues, b.name).kind = "array") =>
                  Len(Existing(formValues, b.name).l) < MaxAnswerLen
           /\ lastEvent' = [op |-> "checkbox", block |-> b.id, arg |-> opt, checked |-> checked]
           /\ IF handleCheckboxChangeThrows(formValues, b.name, checked)
              THEN /\ thrown' = TRUE
                   /\ script' = NoScript
                   /\ formValues' = EmptyValues
                   /\ currentPageId' = ""
                   /\ checkedDom' = {}
                   /\ UNCHANGED everAnswered
              ELSE /\ formValues' = handleCheckboxChange(formValues, b.name, opt, checked)
                   /\ checkedDom' = KeepDom(dom, script, currentPageId, formValues')
                   /\ everAnswered' = TRUE
                   /\ UNCHANGED <<script, currentPageId, thrown>>
    /\ emitted' = NoOutput
    /\ UNCHANGED <<svars, ovars>>

\* mutant of ButtonClick: a save action closes the call
ButtonClickEndsCall(b) ==
    /\ b.type = "button"
    /\ b \in Rendered(script, currentPageId, formValues)
    /\ currentPageId' = handleButtonClick(b.action, script, currentPageId)
    /\ emitted' = ButtonOutput(b.action, formValues)
    /\ checkedDom' = KeepDom(checkedDom, script, currentPageId', formValues)
    /\ lastEvent' = [op |-> b.action.type, block |-> b.id, arg |-> "", checked |-> FALSE]
    /\ ctiStatus' = IF b.action.type = "save" /\ mounted THEN "WAITING" ELSE ctiStatus
    /\ UNCHANGED <<script, formValues, everAnswered, thrown>>
    /\ UNCHANGED <<campaigns, agent, savedScripts, mounted, inst, statusTimer,
                   currentContact, intervals, timeouts, handled, alertMsg, lastOp,
                   prevStatus>>
    /\ UNCHANGED ovars

\* onClick of a rendered button
ButtonClick(b) ==
    /\ b.type = "button"
    /\ b \in Rendered(script, currentPageId, formValues)
    /\ currentPageId' = handleButtonClick(b.action, script, currentPageId)
    /\ emitted' = ButtonOutput(b.action, formValues)
    /\ checkedDom' = KeepDom(checkedDom, script, currentPageId', formValues)
    /\ lastEvent' = [op |-> b.action.type, block |-> b.id, arg |-> "", checked |-> FALSE]
    /\ UNCHANGED <<script, formValues, everAnswered, thrown>>
    /\ UNCHANGED <<svars, ovars>>

AllBlocks(sc) ==
    UNION {{sc.pages[i].blocks[j] : j \in 1..Len(sc.pages[i].blocks)} : i \in 1..Len(sc.pages)}

\* the events the rendered page offers
NextPreview ==
    \/ \E b \in CurrentBlocks(script, currentPageId), v \in {"yes", "no"} : ValueChange(b, v)
    \/ \E b \in CurrentBlocks(script, currentPageId), opt \in {"A", "B"} : CheckboxChange(b, opt)
    \/ \E b \in CurrentBlocks(script, currentPageId) : ButtonClick(b)

SpecPreview == InitPreview /\ [][NextPreview]_vars

\* ------------------------------------------ handleButtonClick alone
\* a script without pages
EmptyScript == [startPageId |-> PageNames[1], pages |-> <<>>]

\* the actions a button can carry
ButtonActions ==
    {[type |-> t, pageId |-> Undef] : t \in {"save", "next", "previous", "print"}}
    \cup {[type |-> "navigate", pageId |-> p] : p \in NavTargets(MaxPages)}

\* any script, its start page present or not, and a page pointer that is
\* its start page or names no page
InitNav ==
    /\ SessionIdle
    /\ OthersIdle
    /\ script \in Scripts \cup {EmptyScript}
    /\ formValues = EmptyValues
    /\ currentPageId \in {script.startPageId, "gone"}
    /\ checkedDom = {}
    /\ emitted = NoOutput
    /\ lastEvent = NoEvent
    /\ everAnswered = FALSE
    /\ thrown = FALSE

\* handleButtonClick(action) called with the page pointer as it is; the
\* event keeps the page pointer it was called with
Dispatch(action) ==
    /\ currentPageId' = handleButtonClick(action, script, currentPageId)
    /\ emitted' = ButtonOutput(action, formValues)
    /\ lastEvent' = [op |-> action.type, block |-> <<0, "">>, arg |-> currentPageId,
                     checked |-> FALSE]
    /\ UNCHANGED <<script, formValues, checkedDom, everAnswered, thrown>>
    /\ UNCHANGED <<svars, ovars>>

NextNav == \E action \in ButtonActions : Dispatch(action)

SpecNav == InitNav /\ [][NextNav]_vars

\* ------------------- a script whose two questions have the same name
\* one page: a single-choice and a multi-choice block, both named q1
SharedNameScript ==
    [startPageId |-> PageNames[1],
     pages |-> << [id |-> PageNames[1],
                   blocks |-> << Block(<<1, "single">>, "radio", "q1", {"yes", "no"}, NoCondition, NoAction),
                                 Block(<<1, "multi">>, "checkbox", "q1", {"A", "B"}, NoCondition, NoAction) >>
                              \o PageButtons(1, Str(PageNames[1]))] >>]

InitShared ==
    /\ SessionIdle
    /\ OthersIdle
    /\ script = SharedNameScript
    /\ formValues = EmptyValues
    /\ currentPageId = script.startPageId
    /\ checkedDom = {}
    /\ emitted = NoOutput
    /\ lastEvent = NoEvent
    /\ everAnswered = FALSE
    /\ thrown = FALSE

SpecShared == InitShared /\ [][NextPreview]_vars

\* ------------------------------------- AgentView with its AgentPreview
\* the script of the calls: a single-choice and a multi-choice question on
\* the first page, a second page to go to and to come back from
CallScript ==
    [startPageId |-> PageNames[1],
     pages |-> << [id |-> PageNames[1],
                   blocks |-> << Block(<<1, "q1">>, "radio", "q1", {"yes"}, NoCondition, NoAction),
                                 Block(<<1, "opts">>, "checkbox", "opts", {"A"}, NoCondition, NoAction),
                                 Button(1, "bNext", [type |-> "next", pageId |-> Undef]) >>],
                  [id |-> PageNames[2],
                   blocks |-> << Button(2, "bPrev", [type |-> "previous", pageId |-> Undef]),
                                 Button(2, "bSave", [type |-> "save", pageId |-> Undef]) >>] >>]

\* script stores: empty, holding the script of campaign 1, holding only
\* another script
ScriptStores ==
    {<<>>, <<[id |-> 1, body |-> CallScript]>>, <<[id |-> 2, body |-> CallScript]>>}

\* an agent of the active campaign 1, which has one pending contact
InitCall ==
    /\ campaigns = <<[id |-> 1, isActive |-> TRUE, scriptId |-> 1,
                      contacts |-> <<[id |-> 1, status |-> "pending"]>>], OtherCampaign>>
    /\ agent = [campaignIds |-> <<1>>]
    /\ savedScripts \in ScriptStores
    /\ mounted = TRUE
    /\ inst = 1
    /\ ctiStatus = InitialStatus
    /\ statusTimer = 0
    /\ currentContact = NoContact
    /\ intervals = EffectSetup(InitialStatus, 0)
    /\ timeouts = {}
    /\ handled = {}
    /\ alertMsg = ""
    /\ lastOp = "mount"
    /\ prevStatus = InitialStatus
    /\ PreviewIdle
    /\ OthersIdle

NextCall == Next \/ NextPreview

SpecCall == InitCall /\ [][NextCall]_vars

\* ---------------------------------------------- checkCondition alone
InitEval ==
    /\ SessionIdle
    /\ PreviewIdle
    /\ PlanningIdle
    /\ UsersIdle
    /\ evalCond \in EvalConditions
    /\ evalValues \in EvalValueMaps
    /\ evalDone = FALSE
    /\ evalResult = FALSE

Evaluate ==
    /\ ~evalDone
    /\ evalDone' = TRUE
    /\ evalResult' = checkCondition(evalCond, evalValues)
    /\ UNCHANGED <<evalCond, evalValues>>
    /\ UNCHANGED <<svars, pvars, plvars, uvars>>

NextEval == Evaluate

SpecEval == InitEval /\ [][NextEval]_vars

\* ------------------------------------------------- planning calendar
\* activeAgents and activityTypes, by id
ActiveAgents == {"a1", "a2"}

ActivityTypes == {"break"}

PlanEvent(i, a, t) == [id |-> Str(i), agentId |-> Str(a), activityId |-> Str(t)]

\* events the store may hold at the start
EventPool == {PlanEvent("e1", "a1", "break"), PlanEvent("e2", "a2", "break")}

\* `plan-${Date.now()}` for the clock readings that are followed
PlanIds == {"plan-1", "plan-2"}

\* a || b
Or(a, b) == IF Falsy(a) THEN b ELSE a

\* the modal's useState initial value, from prop `event`
InitialFormData(event, newId) ==
    [id |-> Or(event.id, Str(newId)),
     agentId |-> Or(event.agentId, Str("")),
     activityId |-> Or(event.activityId, Str(""))]

\* the guard of handleSave with && in place of ||
SelectionMissingBoth(fd) == Falsy(fd.agentId) /\ Falsy(fd.activityId)

\* !formData.agentId || !formData.activityId
SelectionMissing(fd) == Falsy(fd.agentId) \/ Falsy(fd.activityId)

SelectionNotice == "Veuillez selectionner un agent et une activite."

\* what the owner of the store may make of a call to onSavePlanningEvent:
\* its handler is outside PlanningManager, so any store built from the
\* present one and the event passed may result
AfterSave(store, ev) == SUBSET (store \cup {ev})

\* likewise for onDeletePlanningEvent
AfterDelete(store) == SUBSET store

PlanFrame == UNCHANGED <<svars, pvars, evars, uvars>>

\* opening the modal mounts PlanningEventModal on the same render
OpenModal(ev) ==
    /\ modalState' = [isOpen |-> TRUE, event |-> ev]
    /\ \E newId \in PlanIds : formData' = InitialFormData(ev, newId)
    /\ planAlert' = ""
    /\ UNCHANGED <<planningEvents, selectedAgentId, planCalls>>
    /\ PlanFrame

\* onClose: setModalState({ isOpen: false, event: null })
CloseModal ==
    /\ modalState' = NoModal
    /\ formData' = NoEventForm

handleCellClick ==
    /\ ~modalState.isOpen
    /\ planOp' = "handleCellClick"
    /\ OpenModal([id |-> Undef,
                  agentId |-> IF selectedAgentId # "all"
                              THEN Str(selectedAgentId) ELSE Str(""),
                  activityId |-> Undef])

\* click on a displayed event
EventClick(ev) ==
    /\ ~modalState.isOpen
    /\ ev \in planningEvents
    /\ selectedAgentId = "all" \/ StrictEq(ev.agentId, Str(selectedAgentId))
    /\ planOp' = "eventClick"
    /\ OpenModal(ev)

\* the agent filter above the grid
SelectAgent(a) ==
    /\ ~modalState.isOpen
    /\ selectedAgentId' = a
    /\ planAlert' = ""
    /\ planOp' = "selectAgent"
    /\ UNCHANGED <<planningEvents, modalState, formData, planCalls>>
    /\ PlanFrame

\* the two selects of the modal
ChangeAgent(v) ==
    /\ modalState.isOpen
    /\ formData' = [formData EXCEPT !.agentId = Str(v)]
    /\ planAlert' = ""
    /\ planOp' = "changeAgent"
    /\ UNCHANGED <<planningEvents, selectedAgentId, modalState, planCalls>>
    /\ PlanFrame

ChangeActivity(v) ==
    /\ modalState.isOpen
    /\ formData' = [formData EXCEPT !.activityId = Str(v)]
    /\ planAlert' = ""
    /\ planOp' = "changeActivity"
    /\ UNCHANGED <<planningEvents, selectedAgentId, modalState, planCalls>>
    /\ PlanFrame

PlanningHandleSave ==
    /\ modalState.isOpen
    /\ planOp' = "handleSave"
    /\ IF SelectionMissing(formData)
       THEN /\ planAlert' = SelectionNotice
            /\ UNCHANGED <<planningEvents, modalState, formData, planCalls>>
       ELSE /\ Len(planCalls) < MaxCalls
            /\ planCalls' = Append(planCalls, [fn |-> "onSave", arg |-> formData])
            /\ planningEvents' \in AfterSave(planningEvents, formData)
            /\ CloseModal
            /\ planAlert' = ""
    /\ UNCHANGED selectedAgentId
    /\ PlanFrame

\* Annuler
PlanningCancel ==
    /\ modalState.isOpen
    /\ CloseModal
    /\ planAlert' = ""
    /\ planOp' = "cancel"
    /\ UNCHANGED <<planningEvents, selectedAgentId, planCalls>>
    /\ PlanFrame

\* Supprimer, rendered when event?.id is set
PlanningDelete ==
    /\ modalState.isOpen
    /\ ~Falsy(modalState.event.id)
    /\ Len(planCalls) < MaxCalls
    /\ planCalls' = Append(planCalls, [fn |-> "onDelete", arg |-> modalState.event])
    /\ planningEvents' \in AfterDelete(planningEvents)
    /\ CloseModal
    /\ planAlert' = ""
    /\ planOp' = "delete"
    /\ UNCHANGED selectedAgentId
    /\ PlanFrame

InitPlanning ==
    /\ SessionIdle
    /\ PreviewIdle
    /\ EvalIdle
    /\ UsersIdle
    /\ planningEvents \in SUBSET EventPool
    /\ selectedAgentId = "all"
    /\ modalState = NoModal
    /\ formData = NoEventForm
    /\ planCalls = <<>>
    /\ planAlert = ""
    /\ planOp = "none"

NextPlanning ==
    \/ handleCellClick
    \/ \E ev \in planningEvents : EventClick(ev)
    \/ \E a \in ActiveAgents \cup {"all"} : SelectAgent(a)
    \/ \E v \in ActiveAgents \cup {""} : ChangeAgent(v)
    \/ \E v \in ActivityTypes \cup {""} : ChangeActivity(v)
    \/ PlanningHandleSave
    \/ PlanningCancel
    \/ PlanningDelete

SpecPlanning == InitPlanning /\ [][NextPlanning]_vars

\* ------------------------------------------------------ user list
Digits == <<"0", "1", "2", "3", "4", "5", "6", "7", "8", "9">>

\* String(n) and `${n}` for n >= 0: the decimal digits of n
RECURSIVE Dec(_)
Dec(n) == IF n < 10 THEN Digits[n + 1]
          ELSE Dec(n \div 10) \o Digits[(n % 10) + 1]

User(i, l) == [id |-> i, loginId |-> l]

\* mockData.users: lists with pairwise distinct loginIds
InitialUserLists ==
    { <<>>,
      <<User("u1", "1001")>>,
      <<User("u1", "1002"), User("u2", "agent")>> }

\* what may be typed in the loginId field
LoginInputs == {"", "1001", "1002", "agent"}

\* counts entered at the prompt
GenCounts == (1..MaxGen) \cup {0, MaxCount + 1}

\* users.some(u => u.loginId === formData.loginId && u.id !== formData.id)
loginIdExists(us, fd) ==
    \E k \in DOMAIN us : us[k].loginId = fd.loginId /\ us[k].id # fd.id

\* the updater of handleSaveUser: replace the first user of that id, or
\* append
handleSaveUser(prevUsers, userToSave) ==
    LET same == {k \in DOMAIN prevUsers : prevUsers[k].id = userToSave.id}
    IN IF same # {}
       THEN LET index == CHOOSE k \in same : \A m \in same : k <= m
            IN [prevUsers EXCEPT ![index] = userToSave]
       ELSE Append(prevUsers, userToSave)

\* while (existingLoginIds.has(String(nextLoginId))) nextLoginId++
RECURSIVE NextFree(_, _)
NextFree(existingLoginIds, nextLoginId) ==
    IF Dec(nextLoginId) \in existingLoginIds
    THEN NextFree(existingLoginIds, nextLoginId + 1)
    ELSE nextLoginId

\* the for loop of handleGenerateUsers from iteration i on
RECURSIVE GenerateFrom(_, _, _, _, _, _)
GenerateFrom(existingLoginIds, nextLoginId, i, count, now, newUsers) ==
    IF i >= count THEN newUsers
    ELSE LET n == NextFree(existingLoginIds, nextLoginId)
             newUser == User("new-user-" \o Dec(now + i), Dec(n))
         IN GenerateFrom(existingLoginIds \cup {newUser.loginId}, n, i + 1,
                         count, now, Append(newUsers, newUser))

\* handleGenerateUsers numbering from 1001 whatever is taken
handleGenerateUsersNoSkip(us, count, now) ==
    us \o [i \in 1..count |->
             User("new-user-" \o Dec(now + i - 1), Dec(FirstLoginId + i - 1))]

\* the list after handleGenerateUsers(count) at clock reading `now`
handleGenerateUsers(us, count, now) ==
    us \o GenerateFrom({us[k].loginId : k \in DOMAIN us}, FirstLoginId, 0,
                       count, now, <<>>)

UsersFrame == UNCHANGED <<svars, pvars, evars, plvars>>

handleAddNew ==
    /\ ~isModalOpen
    /\ \E now \in (clock + 1)..MaxClock :
          /\ clock' = now
          /\ userForm' = User("new-" \o Dec(now), "")
    /\ isModalOpen' = TRUE
    /\ userError' = ""
    /\ userOp' = "handleAddNew"
    /\ UNCHANGED users
    /\ UsersFrame

handleEdit(k) ==
    /\ ~isModalOpen
    /\ k \in DOMAIN users
    /\ userForm' = users[k]
    /\ isModalOpen' = TRUE
    /\ userError' = ""
    /\ userOp' = "handleEdit"
    /\ UNCHANGED <<users, clock>>
    /\ UsersFrame

\* handleChange on the loginId field
handleChange(v) ==
    /\ isModalOpen
    /\ userForm' = [userForm EXCEPT !.loginId = v]
    /\ userError' = ""
    /\ userOp' = "handleChange"
    /\ UNCHANGED <<users, isModalOpen, clock>>
    /\ UsersFrame

\* UserModal.handleSubmit, then UserManager.handleSave and App's
\* handleSaveUser when the loginId is free
handleSubmit ==
    /\ isModalOpen
    /\ userOp' = "handleSubmit"
    /\ IF loginIdExists(users, userForm)
       THEN /\ userError' = "exists"
            /\ UNCHANGED <<users, isModalOpen, userForm>>
       ELSE /\ Len(handleSaveUser(users, userForm)) <= MaxUsers
            /\ users' = handleSaveUser(users, userForm)
            /\ isModalOpen' = FALSE
            /\ userForm' = NoUser
            /\ userError' = ""
    /\ UNCHANGED clock
    /\ UsersFrame

\* onClose of the user modal
UserModalClose ==
    /\ isModalOpen
    /\ isModalOpen' = FALSE
    /\ userForm' = NoUser
    /\ userError' = ""
    /\ userOp' = "close"
    /\ UNCHANGED <<users, clock>>
    /\ UsersFrame

handleMassGenerateClick(count) ==
    /\ ~isModalOpen
    /\ IF count <= 0 \/ count > MaxCount
       THEN /\ userOp' = "generateRefused"
            /\ UNCHANGED <<users, clock>>
       ELSE /\ Len(users) + count <= MaxUsers
            /\ \E now \in (clock + 1)..MaxClock :
                  /\ clock' = now
                  /\ users' = handleGenerateUsers(users, count, now)
            /\ userOp' = "handleGenerateUsers"
    /\ UNCHANGED <<isModalOpen, userForm, userError>>
    /\ UsersFrame

InitUsers ==
    /\ SessionIdle
    /\ PreviewIdle
    /\ EvalIdle
    /\ PlanningIdle
    /\ users \in InitialUserLists
    /\ isModalOpen = FALSE
    /\ userForm = NoUser
    /\ userError = ""
    /\ clock = 0
    /\ userOp = "none"

NextUsers ==
    \/ handleAddNew
    \/ \E k \in DOMAIN users : handleEdit(k)
    \/ \E v \in LoginInputs : handleChange(v)
    \/ handleSubmit
    \/ UserModalClose
    \/ \E count \in GenCounts : handleMassGenerateClick(count)

SpecUsers == InitUsers /\ [][NextUsers]_vars

\* ======================================================================
\* Properties
\* ======================================================================

\* the campaign the session is assigned to, 0 if none
Assigned == agentCampaign(campaigns, agent)

HasPending(contacts) == \E i \in 1..Len(contacts) : contacts[i].status = "pending"

\* C1: after any sequence of login, request-next-call, pause, resume,
\* end-call, ticks and wrap-up timeouts the status is one of the five
\* statuses; logout is possible in every state of a mounted session and
\* every logout step ends with status LOGGED_OUT.
C1_StatusDomainAndLogout ==
    /\ [](ctiStatus \in AgentCtiStatus)
    /\ [](mounted => ENABLED Logout)
    /\ [][lastOp' = "logout" => ctiStatus' = "LOGGED_OUT"]_vars

C1_Witness ==
    /\ lastOp = "logout"
    /\ prevStatus = "WRAP_UP"
    /\ ctiStatus = "LOGGED_OUT"
    /\ timeouts # {}

\* the transitions of the table, each with the one trigger that takes it
TableStep ==
    \/ ctiStatus = "LOGGED_OUT" /\ ctiStatus' = "WAITING" /\ lastOp' = "login"
    \/ ctiStatus = "WAITING" /\ ctiStatus' = "IN_CALL" /\ lastOp' = "nextCall"
    \/ ctiStatus = "WAITING" /\ ctiStatus' = "PAUSED" /\ lastOp' = "pause"
    \/ ctiStatus = "PAUSED" /\ ctiStatus' = "WAITING" /\ lastOp' = "resume"
    \/ ctiStatus = "IN_CALL" /\ ctiStatus' = "WRAP_UP" /\ lastOp' = "endCall"
    \/ ctiStatus = "WRAP_UP" /\ ctiStatus' = "WAITING" /\ lastOp' = "wrapUpTimeout"

\* C2: every status change of a live session (any step but logout) is one
\* of the table's transitions, taken by the table's trigger, and in WRAP_UP
\* none of the five agent actions is enabled.
C2_OnlyTableTransitions ==
    /\ [][(ctiStatus' # ctiStatus /\ lastOp' # "logout") => TableStep]_vars
    /\ [](ctiStatus = "WRAP_UP" =>
            /\ ~ENABLED handleLoginClick
            /\ ~ENABLED handleNextCall
            /\ ~ENABLED handleEndCall
            /\ ~ENABLED handlePause
            /\ ~ENABLED handleResume)

C2_Witness ==
    /\ lastOp = "wrapUpTimeout"
    /\ prevStatus = "WRAP_UP"
    /\ ctiStatus = "WAITING"
    /\ timeouts # {}

\* C3: request-next-call with an assigned campaign that has a pending
\* contact selects the pending contact of smallest index and sets IN_CALL.
C3_FirstPendingSelected ==
    [][(lastOp' = "nextCall" /\ Assigned # 0 /\ HasPending(campaigns[Assigned].contacts)) =>
        /\ ctiStatus' = "IN_CALL"
        /\ \E k \in 1..Len(campaigns[Assigned].contacts) :
              /\ campaigns[Assigned].contacts[k].status = "pending"
              /\ \A j \in 1..(k - 1) : campaigns[Assigned].contacts[j].status # "pending"
              /\ currentContact' = campaigns[Assigned].contacts[k]]_vars

\* the example of the specification: [done, pending, pending] selects contact 2
C3_Witness ==
    /\ lastOp = "nextCall"
    /\ ctiStatus = "IN_CALL"
    /\ Assigned # 0
    /\ Len(campaigns[Assigned].contacts) = 3
    /\ campaigns[Assigned].contacts[1].status = "done"
    /\ campaigns[Assigned].contacts[2].status = "pending"
    /\ campaigns[Assigned].contacts[3].status = "pending"
    /\ currentContact = campaigns[Assigned].contacts[2]

\* C4: a contact request-next-call has selected once is never selected by
\* a later request-next-call.
C4_NeverSameContactAgain ==
    [][(lastOp' = "nextCall" /\ ctiStatus' = "IN_CALL") => currentContact'.id \notin handled]_vars

\* C5: request-next-call on an assigned campaign without pending contact
\* leaves status WAITING and the contact unset, signals "no more contacts",
\* and pause and request-next-call stay enabled.
C5_EmptyQueue ==
    /\ [][(lastOp' = "nextCall" /\ Assigned # 0 /\ ~HasPending(campaigns[Assigned].contacts)) =>
            /\ ctiStatus' = "WAITING"
            /\ currentContact' = NoContact
            /\ alertMsg' = "Plus de contacts"]_vars
    /\ []((lastOp = "nextCall" /\ alertMsg = "Plus de contacts") =>
            ENABLED handlePause /\ ENABLED handleNextCall)

C5_Witness ==
    /\ lastOp = "nextCall"
    /\ alertMsg = "Plus de contacts"
    /\ ctiStatus = "WAITING"
    /\ currentContact = NoContact
    /\ Assigned # 0
    /\ Len(campaigns[Assigned].contacts) = 2
    /\ statusTimer > 0

\* C6: without an assigned campaign request-next-call changes nothing in
\* the session and reports an outcome that is neither silence nor the
\* "no more contacts" notice.
C6_NoCampaignReported ==
    [][(lastOp' = "nextCall" /\ Assigned = 0) =>
        /\ UNCHANGED <<ctiStatus, currentContact, statusTimer>>
        /\ alertMsg' \notin {"", "Plus de contacts"}]_vars

\* C7: end-call always moves the session to WRAP_UP, and from WRAP_UP the
\* session either is torn down or reaches, by the wrap-up timeout, status
\* WAITING with the contact unset.
C7_WrapUpEnds ==
    /\ [][lastOp' = "endCall" => (ctiStatus = "IN_CALL" /\ ctiStatus' = "WRAP_UP")]_vars
    /\ (ctiStatus = "WRAP_UP") ~>
          \/ ~mounted
          \/ lastOp = "wrapUpTimeout" /\ ctiStatus = "WAITING" /\ currentContact = NoContact

C7_Witness ==
    /\ lastOp = "wrapUpTimeout"
    /\ prevStatus = "WRAP_UP"
    /\ ctiStatus = "WAITING"
    /\ currentContact = NoContact
    /\ timeouts = {}

\* C8: the callback of a wrap-up timeout never runs after the session that
\* scheduled it was torn down.
C8_NoCallbackAfterTeardown == lastOp # "staleTimeout"

\* C9: right after every status transition the elapsed counter is 0.
C9_TimerResetOnTransition ==
    [][(\/ ctiStatus' # ctiStatus
        \/ lastOp' \in {"login", "pause", "resume", "endCall", "wrapUpTimeout"}) =>
       statusTimer' = 0]_vars

C9_Witness ==
    /\ lastOp = "resume"
    /\ prevStatus = "PAUSED"
    /\ ctiStatus = "WAITING"
    /\ statusTimer = 0
    /\ timeouts # {}

\* C10: in LOGGED_OUT the counter is 0 and no tick is enabled; every tick
\* happens in another status, adds exactly 1 and leaves status and contact.
C10_TickOnlyWhileLoggedIn ==
    /\ [](ctiStatus = "LOGGED_OUT" => (statusTimer = 0 /\ ~ENABLED Tick))
    /\ [][lastOp' = "tick" =>
            /\ ctiStatus # "LOGGED_OUT"
            /\ statusTimer' = statusTimer + 1
            /\ UNCHANGED <<ctiStatus, currentContact>>]_vars

C10_Witness ==
    /\ lastOp = "tick"
    /\ ctiStatus = "IN_CALL"
    /\ statusTimer = 3
    /\ currentContact # NoContact

\* C11: at most one elapsed-counter interval is live; exactly one while a
\* session is mounted with a status other than LOGGED_OUT; none in
\* LOGGED_OUT or after the session was torn down.
C11_OneIntervalWhileLoggedIn ==
    /\ intervals \in {0, 1}
    /\ (mounted /\ ctiStatus # "LOGGED_OUT") => intervals = 1
    /\ (~mounted \/ ctiStatus = "LOGGED_OUT") => intervals = 0

\* torn down in WRAP_UP: the interval is gone, the timeout is not
C11_Witness ==
    /\ ~mounted
    /\ lastOp = "logout"
    /\ prevStatus = "WRAP_UP"
    /\ intervals = 0

\* C12 as claimed: the current contact is set only while status is IN_CALL.
C12_ContactOnlyInCall ==
    ctiStatus \in {"LOGGED_OUT", "WAITING", "WRAP_UP", "PAUSED"} => currentContact = NoContact

\* C12 as amended: the current contact is unset in LOGGED_OUT, WAITING and
\* PAUSED; it is set in IN_CALL and stays set through WRAP_UP, until the
\* wrap-up timeout (or a logout) clears it.
C12_ContactUntilWrapUpEnds ==
    /\ ctiStatus \in {"LOGGED_OUT", "WAITING", "PAUSED"} => currentContact = NoContact
    /\ ctiStatus \in {"IN_CALL", "WRAP_UP"} => currentContact # NoContact

C12_Witness ==
    /\ ctiStatus = "WRAP_UP"
    /\ lastOp = "tick"
    /\ currentContact # NoContact

\* C13: the session holds no contact or one contact of the contact
\* sequence of the active campaign of the agent's first membership, and
\* holds one whenever status is IN_CALL.
C13_HeldContactFromCampaign ==
    /\ currentContact # NoContact =>
          \E c \in 1..Len(campaigns) :
             /\ Len(agent.campaignIds) > 0
             /\ campaigns[c].id = agent.campaignIds[1]
             /\ campaigns[c].isActive
             /\ \E k \in 1..Len(campaigns[c].contacts) : campaigns[c].contacts[k] = currentContact
    /\ ctiStatus = "IN_CALL" => currentContact # NoContact

C13_Witness ==
    /\ ctiStatus = "IN_CALL"
    /\ lastOp = "nextCall"
    /\ currentContact.id = 3
    /\ currentContact.status = "pending"

\* the 1-based position of the current page in script.pages, 0 if none
PageIndex == findIndex(script.pages, currentPageId) + 1

\* the name of the block the last event was on
EventName == lastEvent.block[2]

\* the display rule as the specification words it
VisibleByRule(condition, answers) ==
    IF condition.kind = "null" \/ condition.blockName.kind = "null"
          \/ condition.blockName = Str("")
    THEN TRUE
    ELSE LET name == condition.blockName.s
         IN  IF name \in DOMAIN answers /\ answers[name].kind = "array"
             THEN /\ condition.value.kind = "string"
                  /\ condition.value.s \in {answers[name].l[i] : i \in 1..Len(answers[name].l)}
             ELSE LET a == IF name \in DOMAIN answers THEN answers[name] ELSE Undef
                  IN  a.kind = condition.value.kind /\ a.s = condition.value.s

\* C14: checkCondition returns what the display rule says, for every
\* condition and answer mapping of the bounded input sets.
C14_VisibilityRule ==
    evalDone => (evalResult <=> VisibleByRule(evalCond, evalValues))

\* {opts: ['A', 'B']} against value 'B'
C14_Witness ==
    /\ evalDone
    /\ evalResult
    /\ evalCond = Condition(Str("opts"), Str("B"))
    /\ "opts" \in DOMAIN evalValues
    /\ evalValues["opts"] = Arr(<<"A", "B">>)

\* C15: a condition with a block name is false when the answer mapping has
\* no key for that name, whatever the condition's value.
C15_AbsentKeyFalse ==
    (/\ evalDone
     /\ evalCond.kind = "object"
     /\ ~Falsy(evalCond.blockName)
     /\ evalCond.blockName.s \notin DOMAIN evalValues) => ~evalResult

NoDuplicates(q) == \A i, j \in 1..Len(q) : q[i] = q[j] => i = j

\* C16: a multi-choice answer holds each option at most once, holds an
\* option right after it was checked and not right after it was unchecked.
C16_SetToggle ==
    /\ \A k \in DOMAIN formValues :
          formValues[k].kind = "array" => NoDuplicates(formValues[k].l)
    /\ lastEvent.op = "checkbox" =>
          (lastEvent.checked <=> Includes(formValues[EventName].l, Str(lastEvent.arg)))

\* C17: a single-valued answer overwrites the key of its block and leaves
\* every other key of the mapping as it was.
C17_Overwrite ==
    [][lastEvent'.op = "value" =>
        /\ DOMAIN formValues' = (DOMAIN formValues) \cup {lastEvent'.block[2]}
        /\ formValues'[lastEvent'.block[2]] = Str(lastEvent'.arg)
        /\ \A k \in (DOMAIN formValues) \ {lastEvent'.block[2]} :
              formValues'[k] = formValues[k]]_vars

\* q1 overwritten from 'yes' or nothing to 'no' while opts is kept
C17_Witness ==
    /\ lastEvent.op = "value"
    /\ lastEvent.arg = "no"
    /\ DOMAIN formValues = {"q1", "opts"}
    /\ formValues["q1"] = Str("no")
    /\ Len(formValues["opts"].l) = 2

\* C18: on page i of n, next goes to page i+1 when i < n and stays when
\* i = n; previous goes to page i-1 when i > 1 and stays when i = 1.
C18_NextPreviousClamp ==
    [][/\ (lastEvent'.op = "next" /\ PageIndex > 0) =>
            currentPageId' = IF PageIndex < Len(script.pages)
                             THEN script.pages[PageIndex + 1].id
                             ELSE currentPageId
       /\ (lastEvent'.op = "previous" /\ PageIndex > 0) =>
            currentPageId' = IF PageIndex > 1
                             THEN script.pages[PageIndex - 1].id
                             ELSE currentPageId]_vars

\* next on the last of three pages
C18_Witness ==
    /\ lastEvent.op = "next"
    /\ Len(script.pages) = 3
    /\ lastEvent.block[1] = 3
    /\ PageIndex = 3

\* C19: currentPageId is always the id of a page of the script.
C19_PageExists == PageIndex > 0

\* C20: when the page pointer names no page of the script, an error has
\* been surfaced to the caller.
C20_DanglingSurfaced == PageIndex = 0 => emitted.shown

\* the block the last event was on
EventBlock == CHOOSE b \in AllBlocks(script) : b.id = lastEvent.block

\* the action types handleButtonClick has a case for
KnownActions == {"save", "navigate", "next", "previous"}

\* C21 as stated: after a navigate action the page pointer equals
\* action.pageId, whatever that pageId is (empty and missing included).
C21_NavigateUnconditional ==
    lastEvent.op = "navigate" => Str(currentPageId) = EventBlock.action.pageId

\* C21: a navigate action sets the page pointer to action.pageId when that
\* pageId is set and not empty, whether or not the script has such a page;
\* with an empty or missing pageId it leaves the page pointer as it was.
C21_NavigateWhenSet ==
    [][lastEvent'.op = "navigate" =>
        LET b == CHOOSE x \in AllBlocks(script) : x.id = lastEvent'.block
        IN  currentPageId' = IF Falsy(b.action.pageId) THEN currentPageId
                             ELSE b.action.pageId.s]_vars

\* navigate to an id the script has no page for
C21_Witness ==
    /\ lastEvent.op = "navigate"
    /\ EventBlock.action.pageId = Str("gone")
    /\ currentPageId = "gone"

\* C22: a save action leaves the page pointer and the answer mapping as
\* they were and shows the whole answer mapping, every key recorded so far.
C22_SaveEmitsAll ==
    [][lastEvent'.op = "save" =>
        /\ currentPageId' = currentPageId
        /\ formValues' = formValues
        /\ emitted'.shown
        /\ DOMAIN emitted'.values = DOMAIN formValues
        /\ \A k \in DOMAIN formValues : emitted'.values[k] = formValues[k]]_vars

\* save on the second page, with the answers given on the first page
C22_Witness ==
    /\ lastEvent.op = "save"
    /\ PageIndex = 2
    /\ DOMAIN formValues = {"q1", "opts"}
    /\ emitted.shown
    /\ emitted.values = formValues

\* C23: nothing is shown to the outside by an event that is not a save
\* action: navigate, next, previous and answer events show nothing.
C23_OnlySaveEmits ==
    /\ emitted.shown => lastEvent.op = "save"
    /\ lastEvent.op # "save" => emitted = NoOutput

\* answers given and pages changed, nothing shown
C23_Witness ==
    /\ lastEvent.op = "navigate"
    /\ DOMAIN formValues = {"q1", "opts"}
    /\ Len(script.pages) > 1
    /\ PageIndex = Len(script.pages)
    /\ ~emitted.shown

\* C24: a button whose action type is none of save, navigate, next and
\* previous changes neither the page pointer nor the answer mapping and
\* shows nothing.
C24_UnknownActionNoOp ==
    [][(lastEvent'.op \notin KnownActions \cup {"value", "checkbox", "none"}) =>
        /\ currentPageId' = currentPageId
        /\ formValues' = formValues
        /\ emitted' = NoOutput]_vars

\* the 'print' button clicked on the first of three pages, answers given
C24_Witness ==
    /\ lastEvent.op = "print"
    /\ Len(script.pages) = 3
    /\ PageIndex = 1
    /\ "q1" \in DOMAIN formValues

\* the blocks of the current page that are to be displayed, by the rule
\* of the specification
Displayed ==
    IF PageIndex = 0 THEN {}
    ELSE {script.pages[PageIndex].blocks[i] : i \in 1..Len(script.pages[PageIndex].blocks)}
         \cap {b \in AllBlocks(script) :
                  b.type # "group" /\ VisibleByRule(b.displayCondition, formValues)}

\* C25: the rendered elements correspond one to one to the blocks of the
\* current page that are not of type group and whose condition is true;
\* no other block has an element.
C25_RenderedExactly ==
    LET els == Elements(script, currentPageId, formValues)
    IN  /\ {els[i].key : i \in 1..Len(els)} = {b.id : b \in Displayed}
        /\ Len(els) = Cardinality(Displayed)

\* first page: the label is hidden by its condition, the group marker by
\* its type, the multi-choice question is shown
C25_Witness ==
    /\ PageIndex = 1
    /\ Len(script.pages) > 1
    /\ lastEvent.op = "value"
    /\ formValues["q1"] = Str("yes")
    /\ \E b \in Displayed : b.name = "opts"
    /\ \E b \in AllBlocks(script) \ Displayed : b.name = "lbl"
    /\ Len(Elements(script, currentPageId, formValues)) = Cardinality(Displayed)

\* C26: a displayed block of a type renderBlock has no case for has an
\* element, the 'unsupported type' placeholder, and the other displayed
\* blocks have the element of their type.
C26_PlaceholderForUnknownType ==
    LET els == Elements(script, currentPageId, formValues)
    IN  \A b \in Displayed :
            \E i \in 1..Len(els) :
                /\ els[i].key = b.id
                /\ els[i].element = IF b.type \in BlockTypes THEN b.type ELSE Unsupported

\* the block of type 'signature' is displayed next to the buttons
C26_Witness ==
    /\ PageIndex = 1
    /\ lastEvent.op = "checkbox"
    /\ \E b \in Displayed : b.type = "signature"
    /\ \E i \in 1..Len(Elements(script, currentPageId, formValues)) :
          Elements(script, currentPageId, formValues)[i] =
              [key |-> <<1, "sig">>, element |-> Unsupported]

\* the script store holds the script of the assigned campaign
ScriptInStore ==
    /\ Assigned # 0
    /\ \E i \in 1..Len(savedScripts) : savedScripts[i].id = campaigns[Assigned].scriptId

\* C27: the answer mapping and the page pointer do not outlive the call:
\* outside IN_CALL there is none, and each entry into IN_CALL starts with
\* an empty answer mapping and, when there is a script, on its start page.
C27_FreshPerCall ==
    /\ [](ctiStatus # "IN_CALL" => (script = NoScript /\ formValues = EmptyValues))
    /\ [][(ctiStatus' = "IN_CALL" /\ ctiStatus # "IN_CALL") =>
            /\ formValues' = EmptyValues
            /\ checkedDom' = {}
            /\ ScriptInStore => (script' # NoScript /\ currentPageId' = script'.startPageId)]_vars

\* a call entered after answers were recorded in an earlier call
C27_Witness ==
    /\ lastOp = "nextCall"
    /\ ctiStatus = "IN_CALL"
    /\ everAnswered
    /\ script = CallScript
    /\ formValues = EmptyValues
    /\ currentPageId = CallScript.startPageId

\* C28: the preview is displayed exactly when the status is IN_CALL, a
\* contact is held and the store has the script of the assigned campaign;
\* in no other status can an event of the preview occur.
C28_PreviewOnlyInCall ==
    /\ (script # NoScript) <=>
          (mounted /\ ctiStatus = "IN_CALL" /\ currentContact # NoContact /\ ScriptInStore)
    /\ (ENABLED NextPreview) =>
          (ctiStatus = "IN_CALL" /\ currentContact # NoContact /\ ScriptInStore)

\* in a call with the script displayed, an answer has just been recorded
C28_Witness ==
    /\ ctiStatus = "IN_CALL"
    /\ script = CallScript
    /\ lastEvent.op = "value"
    /\ ENABLED NextPreview

\* the first campaign membership of the agent, 0 if there is none
FirstMembership == IF Len(agent.campaignIds) = 0 THEN 0 ELSE agent.campaignIds[1]

\* C29: the assigned campaign is the campaign of the agent's first
\* membership, and only when it is active; there is none when that
\* campaign is inactive or missing, whatever the later memberships are,
\* and then a request for the next call selects no contact.
C29_AssignedCampaign ==
    /\ Assigned # 0 =>
          (campaigns[Assigned].id = FirstMembership /\ campaigns[Assigned].isActive)
    /\ Assigned = 0 <=>
          ~\E i \in 1..Len(campaigns) :
              campaigns[i].id = FirstMembership /\ campaigns[i].isActive
    /\ (lastOp = "nextCall" /\ ctiStatus = "IN_CALL") =>
          \E i \in 1..Len(campaigns) :
              /\ campaigns[i].id = FirstMembership
              /\ campaigns[i].isActive
              /\ \E k \in 1..Len(campaigns[i].contacts) :
                    campaigns[i].contacts[k] = currentContact

\* first membership inactive, second membership active with a pending
\* contact: the next call was requested and nothing was selected
C29_Witness ==
    /\ agent.campaignIds = <<2, 1>>
    /\ campaigns[1].isActive
    /\ HasPending(campaigns[1].contacts)
    /\ Assigned = 0
    /\ lastOp = "nextCall"
    /\ ctiStatus = "WAITING"
    /\ currentContact = NoContact

\* C30: no step of the session changes the contact sequence of a campaign:
\* same length, same order, same contacts.
C30_ContactsNotRestructured ==
    [][/\ Len(campaigns') = Len(campaigns)
       /\ \A i \in 1..Len(campaigns) :
             /\ Len(campaigns'[i].contacts) = Len(campaigns[i].contacts)
             /\ \A k \in 1..Len(campaigns[i].contacts) :
                   campaigns'[i].contacts[k].id = campaigns[i].contacts[k].id]_vars

\* a call was taken and wrapped up, the campaign still has its three
\* contacts
C30_Witness ==
    /\ lastOp = "wrapUpTimeout"
    /\ handled # {}
    /\ Assigned # 0
    /\ Len(campaigns[Assigned].contacts) = 3
    /\ \A k \in 1..3 : campaigns[Assigned].contacts[k].id = k

\* C31: the wrap-up callback of the mounted instance runs when ten seconds
\* have passed since the end of the call, not before, and while the status
\* is WRAP_UP the elapsed counter is at most 10.
C31_WrapUpAfterTenSeconds ==
    /\ [](ctiStatus = "WRAP_UP" => statusTimer <= WrapUpDelay)
    /\ [][(lastOp' = "wrapUpTimeout" /\ timeouts' # timeouts) =>
            (ctiStatus = "WRAP_UP" /\ statusTimer = WrapUpDelay)]_vars

\* the tenth second of a wrap-up: the callback is due
C31_Witness ==
    /\ ctiStatus = "WRAP_UP"
    /\ statusTimer = WrapUpDelay
    /\ [owner |-> inst, rem |-> 0] \in timeouts

\* C32: while an instance is mounted a wrap-up timeout is pending exactly
\* when the status is WRAP_UP, and there is never more than one.
C32_OneTimeoutInWrapUp ==
    /\ mounted => ((timeouts # {}) <=> (ctiStatus = "WRAP_UP"))
    /\ Cardinality(timeouts) <= 1

\* C33: the wrap-up callback of an instance that was unmounted changes
\* neither the status, nor the contact, nor the elapsed counter of the
\* instance mounted after it.
C33_StaleCallbackHarmless ==
    [][(\E t \in timeouts : t.rem = 0 /\ t.owner # inst /\ timeouts' = timeouts \ {t}) =>
        /\ ctiStatus' = ctiStatus
        /\ currentContact' = currentContact
        /\ statusTimer' = statusTimer]_vars

\* the callback of the first instance has run while the second instance
\* was in a call
C33_Witness ==
    /\ lastOp = "staleTimeout"
    /\ mounted
    /\ inst = 2
    /\ ctiStatus = "IN_CALL"
    /\ currentContact # NoContact
    /\ statusTimer > 0

\* a step of the preview: its state or its output changes while it stays
\* mounted
PreviewStep ==
    /\ script # NoScript
    /\ script' = script
    /\ <<formValues, currentPageId, checkedDom, emitted, lastEvent>>' #
          <<formValues, currentPageId, checkedDom, emitted, lastEvent>>

\* C34: no event of the preview changes the status, the contact or the
\* elapsed counter of the session, a save does not end the call, and a
\* tick of the session changes neither the answers nor the page.
C34_SessionAndPreviewApart ==
    [][/\ PreviewStep =>
            /\ ctiStatus' = ctiStatus
            /\ currentContact' = currentContact
            /\ statusTimer' = statusTimer
       /\ (lastEvent' # lastEvent /\ lastEvent'.op = "save") => ctiStatus' = "IN_CALL"
       /\ statusTimer' = statusTimer + 1 =>
            /\ formValues' = formValues
            /\ currentPageId' = currentPageId]_vars

\* save clicked in a call that goes on, some seconds into it
C34_Witness ==
    /\ lastEvent.op = "save"
    /\ emitted.shown
    /\ ctiStatus = "IN_CALL"
    /\ currentContact # NoContact
    /\ statusTimer > 1
    /\ DOMAIN formValues = {"q1", "opts"}

\* C35: navigate, next and previous leave the answer mapping as it was;
\* recording an answer leaves the page pointer as it was.
C35_PageAndAnswersApart ==
    [][/\ lastEvent'.op \in {"navigate", "next", "previous"} => formValues' = formValues
       /\ lastEvent'.op \in {"value", "checkbox"} => currentPageId' = currentPageId]_vars

\* back on the first page by navigate, with the answers given before
C35_Witness ==
    /\ lastEvent.op = "navigate"
    /\ lastEvent.block[1] = 2
    /\ PageIndex = 1
    /\ DOMAIN formValues = {"q1", "opts"}

\* the label of the first page is among the rendered elements
LabelShown ==
    \E i \in 1..Len(Elements(script, currentPageId, formValues)) :
        Elements(script, currentPageId, formValues)[i].key = <<1, "lbl">>

\* C36: the keys of the answer mapping only grow; unchecking leaves the
\* key with a list; a stored answer keeps deciding the display of other
\* blocks and is part of what save shows, whether or not its own block is
\* displayed.
C36_AnswersStay ==
    /\ [][/\ DOMAIN formValues \subseteq DOMAIN formValues'
          /\ (lastEvent'.op = "checkbox" /\ ~lastEvent'.checked) =>
                /\ lastEvent'.block[2] \in DOMAIN formValues'
                /\ formValues'[lastEvent'.block[2]].kind = "array"]_vars
    /\ [](PageIndex = 1 =>
            (LabelShown <=> ("opts" \in DOMAIN formValues
                                /\ Includes(formValues["opts"].l, Str("B")))))
    /\ [](emitted.shown => DOMAIN emitted.values = DOMAIN formValues)

\* the multi-choice block is hidden again (q1 changed to 'no'), its
\* answer still shows the label and is part of what save shows
C36_Witness ==
    /\ lastEvent.op = "save"
    /\ PageIndex = 1
    /\ DOMAIN formValues = {"q1", "opts"}
    /\ formValues["q1"] = Str("no")
    /\ Includes(formValues["opts"].l, Str("B"))
    /\ ~\E b \in Rendered(script, currentPageId, formValues) : b.name = "opts"
    /\ LabelShown
    /\ emitted.values["opts"] = formValues["opts"]

\* C38: no answer event raises an error, and a multi-choice answer is a
\* list of options of its block, also when a single-valued block of the
\* same name has stored a string under the key.
C38_NoErrorNoMalformedAnswer ==
    /\ ~thrown
    /\ \A k \in DOMAIN formValues :
          formValues[k].kind = "array" =>
              \A i \in 1..Len(formValues[k].l) : formValues[k].l[i] \in {"A", "B"}

\* C37: when the page pointer names no page of the script, next moves to
\* the first page if the script has a page, and previous leaves the page
\* pointer as it was.
C37_NextPreviousWhenLost ==
    [][/\ (PageIndex = 0 /\ lastEvent'.op = "next" /\ Len(script.pages) >= 1) =>
            currentPageId' = script.pages[1].id
       /\ (PageIndex = 0 /\ lastEvent'.op = "previous") =>
            currentPageId' = currentPageId]_vars

\* next dispatched on the pointer 'gone' of a script of three pages
C37_Witness ==
    /\ lastEvent.op = "next"
    /\ lastEvent.arg = "gone"
    /\ Len(script.pages) = 3
    /\ currentPageId = script.pages[1].id

\* C39: saving a planning event whose agent or activity selection is empty
\* is rejected: neither callback is invoked, the stored events are
\* unchanged, the modal stays open and a notice is signalled; with both
\* selected, the event is passed to the save callback exactly once and the
\* modal closes.
C39_SaveNeedsAgentAndActivity ==
    [][(planOp' = "handleSave") =>
         IF Falsy(formData.agentId) \/ Falsy(formData.activityId)
         THEN /\ planCalls' = planCalls
              /\ planningEvents' = planningEvents
              /\ modalState'.isOpen
              /\ formData' = formData
              /\ planAlert' # ""
         ELSE /\ planCalls' = Append(planCalls, [fn |-> "onSave", arg |-> formData])
              /\ ~modalState'.isOpen
              /\ planAlert' = ""]_vars

\* a save with the activity missing is refused after an earlier save went
\* through
C39_Witness ==
    /\ planOp = "handleSave"
    /\ planAlert # ""
    /\ modalState.isOpen
    /\ ~Falsy(formData.agentId)
    /\ Falsy(formData.activityId)
    /\ Len(planCalls) = 1
    /\ planCalls[1].fn = "onSave"

\* C40: starting from a user list with pairwise distinct loginIds, after
\* any sequence of saves through the user modal and of mass generations no
\* two users with different ids share a loginId.
C40_LoginIdsDistinct ==
    \A i, j \in DOMAIN users :
        users[i].id # users[j].id => users[i].loginId # users[j].loginId

\* a generation has numbered its user 1002 because a user saved through
\* the modal holds 1001
C40_Witness ==
    /\ userOp = "handleGenerateUsers"
    /\ \E i, j \in DOMAIN users :
          /\ users[i] = User("new-1", "1001")
          /\ users[j] = User("new-user-2", "1002")
====
